---- MODULE Spec2Model ----
(***************************************************************************)
(* URAP (Gip-Gip/urap): the protocol engine of src/src/lib.rs (checksum,   *)
(* wire codec, UrapSecondary::poll / process, UrapPrimary::read_4u8 /      *)
(* write_4u8) and the thread-per-connection Unix-socket server of          *)
(* src/src/usockets.rs (UrapSecondary::spawn, pop_error, UrapPrimary).     *)
(***************************************************************************)
EXTENDS Integers, Sequences, FiniteSets, TLC

(***************************************************************************)
(* Bounds of the model.                                                    *)
(***************************************************************************)
\* connections the listener accepts
NumConn == 2
\* UrapPrimary calls (read_4u8 / write_4u8) made in a behaviour, all connections together
MaxCalls == 2
\* largest slice length a UrapPrimary call is given
MaxCount == 2
\* pop_error calls made in a behaviour
MaxPops == 1

(***************************************************************************)
(* Constants of the program.                                               *)
(***************************************************************************)
URAP_DATA_WIDTH == 4
URAP_CRC_WIDTH == 1
URAP_REG_WIDTH == 2
URAP_COUNT_WIDTH == 1
URAP_HEAD_WIDTH == URAP_COUNT_WIDTH
URAP_ACK_WIDTH == 1
URAP_WRITE_OR == 128
URAP_COUNT_MAX == 128
ACK == 170
\* u16::MAX as usize + 1, the register count of the server under test
RCOUNT == 65536
\* the register count of the three-register bank of the specification's scenario
RCOUNT_SMALL == 3
\* the register the test write-protects: write_protect[2] = true
PROTECTED_REGISTER == 2

Byte == 0..255

(***************************************************************************)
(* Bit operations on u8 values.                                            *)
(***************************************************************************)
RECURSIVE XorBits(_, _)
XorBits(a, b) ==
    IF a = 0 THEN b
    ELSE IF b = 0 THEN a
    ELSE (((a % 2) + (b % 2)) % 2) + 2 * XorBits(a \div 2, b \div 2)

\* a ^ b on u8: the operator of two operand values
BitXor(a, b) == [ x \in Byte, y \in Byte |-> XorBits(x, y) ][a, b]

RECURSIVE BitAnd(_, _)
BitAnd(a, b) ==
    IF a = 0 \/ b = 0 THEN 0
    ELSE ((a % 2) * (b % 2)) + 2 * BitAnd(a \div 2, b \div 2)

RECURSIVE BitOr(_, _)
BitOr(a, b) ==
    IF a = 0 THEN b
    ELSE IF b = 0 THEN a
    ELSE (IF a % 2 = 1 \/ b % 2 = 1 THEN 1 ELSE 0) + 2 * BitOr(a \div 2, b \div 2)

\* !x on a u8
BitNot(a) == 255 - a

(***************************************************************************)
(* Checksum engine.                                                        *)
(***************************************************************************)
CRC_TABLE ==
    << 0, 29, 58, 39, 116, 105, 78, 83, 232, 245, 210, 207, 156, 129, 166, 187,
       205, 208, 247, 234, 185, 164, 131, 158, 37, 56, 31, 2, 81, 76, 107, 118,
       135, 154, 189, 160, 243, 238, 201, 212, 111, 114, 85, 72, 27, 6, 33, 60,
       74, 87, 112, 109, 62, 35, 4, 25, 162, 191, 152, 133, 214, 203, 236, 241,
       19, 14, 41, 52, 103, 122, 93, 64, 251, 230, 193, 220, 143, 146, 181, 168,
       222, 195, 228, 249, 170, 183, 144, 141, 54, 43, 12, 17, 66, 95, 120, 101,
       148, 137, 174, 179, 224, 253, 218, 199, 124, 97, 70, 91, 8, 21, 50, 47,
       89, 68, 99, 126, 45, 48, 23, 10, 177, 172, 139, 150, 197, 216, 255, 226,
       38, 59, 28, 1, 82, 79, 104, 117, 206, 211, 244, 233, 186, 167, 128, 157,
       235, 246, 209, 204, 159, 130, 165, 184, 3, 30, 57, 36, 119, 106, 77, 80,
       161, 188, 155, 134, 213, 200, 239, 242, 73, 84, 115, 110, 61, 32, 7, 26,
       108, 113, 86, 75, 24, 5, 34, 63, 132, 153, 190, 163, 240, 237, 202, 215,
       53, 40, 15, 18, 65, 92, 123, 102, 221, 192, 231, 250, 169, 180, 147, 142,
       248, 229, 194, 223, 140, 145, 182, 171, 16, 13, 42, 55, 100, 121, 94, 67,
       178, 175, 136, 149, 198, 219, 252, 225, 90, 71, 96, 125, 46, 51, 20, 9,
       127, 98, 69, 88, 11, 22, 49, 44, 151, 138, 173, 176, 227, 254, 217, 196 >>

\* a checksum whose table lookup does not take the running value in
RECURSIVE crcNoFeedback(_, _)
crcNoFeedback(start_crc, data) ==
    IF data = << >> THEN start_crc
    ELSE crcNoFeedback(BitXor(CRC_TABLE[Head(data) + 1], start_crc), Tail(data))

\* crc = CRC_TABLE[(*byte ^ crc) as usize], for each byte of data in order
RECURSIVE crc(_, _)
crc(start_crc, data) ==
    IF data = << >> THEN start_crc
    ELSE crc(CRC_TABLE[BitXor(Head(data), start_crc) + 1], Tail(data))

(***************************************************************************)
(* NakCode and Error.                                                      *)
(***************************************************************************)
NakCodes ==
    { "Unknown", "SecondaryFailure", "BadCrc", "OutOfBounds", "IncompletePacket",
      "IndexWriteProtected", "CountExceedsBounds" }

\* nak_code as u8: the discriminants of #[repr(u8)] enum NakCode
NakCodeAsU8(code) ==
    CASE code = "Unknown" -> 0
      [] code = "SecondaryFailure" -> 1
      [] code = "BadCrc" -> 2
      [] code = "OutOfBounds" -> 3
      [] code = "IncompletePacket" -> 4
      [] code = "IndexWriteProtected" -> 5
      [] code = "CountExceedsBounds" -> 6

\* NakCode::from with the arms one ordinal off
NakCodeFromU8Shifted(value) ==
    CASE value = 0 -> "SecondaryFailure"
      [] value = 1 -> "BadCrc"
      [] value = 2 -> "OutOfBounds"
      [] value = 3 -> "IncompletePacket"
      [] value = 4 -> "IndexWriteProtected"
      [] value = 5 -> "CountExceedsBounds"
      [] OTHER -> "Unknown"

\* impl From<u8> for NakCode
NakCodeFromU8(value) ==
    CASE value = 1 -> "SecondaryFailure"
      [] value = 2 -> "BadCrc"
      [] value = 3 -> "OutOfBounds"
      [] value = 4 -> "IncompletePacket"
      [] value = 5 -> "IndexWriteProtected"
      [] value = 6 -> "CountExceedsBounds"
      [] OTHER -> "Unknown"

\* Option::None, for nak_code and for results not yet there
None == "None"

(***************************************************************************)
(* Registers ([u8; 4]) and byte slices.                                    *)
(***************************************************************************)
ZeroReg == << 0, 0, 0, 0 >>

\* u16::to_le_bytes
ToLeBytes(v) == << v % 256, v \div 256 >>

\* FromLeBytes taking the first byte as the high one
FromLeBytesSwapped(lo, hi) == 256 * lo + hi

\* u16::from_le_bytes
FromLeBytes(lo, hi) == lo + 256 * hi

\* cast_slice: the bytes of a slice of registers, in order
RECURSIVE CastSlice(_)
CastSlice(regs) ==
    IF regs = << >> THEN << >> ELSE Head(regs) \o CastSlice(Tail(regs))

\* byte k (from 0) of a zero-initialised buffer whose first Len(filled) bytes were read
BufferByte(filled, k) == IF k < Len(filled) THEN filled[k + 1] ELSE 0

\* element i (from 0) of a buffer viewed as [[u8; URAP_DATA_WIDTH]; _]
BufferReg(filled, i) ==
    [ j \in 1..URAP_DATA_WIDTH |-> BufferByte(filled, URAP_DATA_WIDTH * i + j - 1) ]

\* the register bank is kept as the map of its non-zero registers
RegAt(bank, a) == IF a \in DOMAIN bank THEN bank[a] ELSE ZeroReg

\* the bank with bank[a] = f[a] for the addresses a of the domain of f
BankWith(bank, f) ==
    LET dom == { a \in DOMAIN bank \cup DOMAIN f :
                    (IF a \in DOMAIN f THEN f[a] ELSE bank[a]) # ZeroReg }
    IN  [ a \in dom |-> IF a \in DOMAIN f THEN f[a] ELSE bank[a] ]

\* the test's mask: write_protect[2] = true, every other entry false
writeprotect(i) == i = PROTECTED_REGISTER

(***************************************************************************)
(* UrapPrimary: the request packets.                                       *)
(***************************************************************************)
\* the precondition both calls assert on data.len()
PrimaryAsserts(len) == len < URAP_COUNT_MAX /\ len # 0

\* packet_data of read_4u8 for a buffer of len registers
ReadPacket(start_register, len) ==
    LET sr == ToLeBytes(start_register)
        count == (len - 1) % 256
        calcd_crc == crc(crc(0, << count >>), sr)
    IN  << count, sr[1], sr[2], calcd_crc >>

\* packet_data[..packet_end_index] of write_4u8
WritePacket(start_register, data) ==
    LET sr == ToLeBytes(start_register)
        count == (Len(data) - 1) % 256
        head == BitOr(count, URAP_WRITE_OR)
        body == << head, sr[1], sr[2] >> \o CastSlice(data)
    IN  body \o << crc(0, body) >>

(***************************************************************************)
(* UrapSecondary::poll.                                                    *)
(***************************************************************************)
\* head & URAP_WRITE_OR > 0
HeadWrite(head) == BitAnd(head, URAP_WRITE_OR) > 0

\* (head & !URAP_WRITE_OR) + 1, a u8
HeadCount(head) == BitAnd(head, BitNot(URAP_WRITE_OR)) + 1

\* the bytes poll reads after the three header bytes
RestLen(head) ==
    IF HeadWrite(head) THEN HeadCount(head) * URAP_DATA_WIDTH + URAP_CRC_WIDTH
    ELSE URAP_CRC_WIDTH

\* the write-protect loop over writeprotect[start..start + count]
WriteProtected(start_register, count) ==
    \E reg \in start_register..(start_register + count - 1) : writeprotect(reg)

\* Validate without the write-protect loop
ValidateNoProtect(write, calcd_crc, start_register, count, regcnt) ==
    IF calcd_crc # 0 THEN "BadCrc"
    ELSE IF start_register >= regcnt THEN "OutOfBounds"
    ELSE IF start_register + count > regcnt THEN "CountExceedsBounds"
    ELSE None

\* Validate with start_register + count computed in u16
ValidateWrapping(write, calcd_crc, start_register, count, regcnt) ==
    IF calcd_crc # 0 THEN "BadCrc"
    ELSE IF start_register >= regcnt THEN "OutOfBounds"
    ELSE IF (start_register + count) % 65536 > regcnt THEN "CountExceedsBounds"
    ELSE IF write /\ WriteProtected(start_register, count) THEN "IndexWriteProtected"
    ELSE None

\* Validate with the bounds of start_register checked before the crc
ValidateBoundsFirst(write, calcd_crc, start_register, count, regcnt) ==
    IF start_register >= regcnt THEN "OutOfBounds"
    ELSE IF calcd_crc # 0 THEN "BadCrc"
    ELSE IF start_register + count > regcnt THEN "CountExceedsBounds"
    ELSE IF write /\ WriteProtected(start_register, count) THEN "IndexWriteProtected"
    ELSE None

\* the if / else if chain that sets nak_code
Validate(write, calcd_crc, start_register, count, regcnt) ==
    IF calcd_crc # 0 THEN "BadCrc"
    ELSE IF start_register >= regcnt THEN "OutOfBounds"
    ELSE IF start_register + count > regcnt THEN "CountExceedsBounds"
    ELSE IF write /\ WriteProtected(start_register, count) THEN "IndexWriteProtected"
    ELSE None

\* UrapRecievedPacket decoded from the bytes of one whole packet
Decode(bytes, regcnt) ==
    LET head == bytes[1]
        write == HeadWrite(head)
        count == HeadCount(head)
        start_register == FromLeBytes(bytes[2], bytes[3])
        buffer == SubSeq(bytes, 4, Len(bytes))
        calcd_crc == crc(crc(0, SubSeq(bytes, 1, 3)), buffer)
    IN  [ start_register |-> start_register,
          count |-> count,
          write |-> write,
          buffer |-> IF write THEN buffer ELSE << >>,
          nak_code |-> Validate(write, calcd_crc, start_register, count, regcnt) ]

NoPacket ==
    [ start_register |-> 0, count |-> 0, write |-> FALSE, buffer |-> << >>,
      nak_code |-> None ]

\* poll that takes the end of the stream inside a packet for the end of the
\* stream between packets
pollPartialIsNone(avail, eof, regcnt) ==
    LET hlen == URAP_HEAD_WIDTH + URAP_REG_WIDTH
        need == IF Len(avail) >= hlen THEN hlen + RestLen(avail[1]) ELSE hlen
    IN  IF Len(avail) = 0
        THEN IF eof
             THEN [ tag |-> "OkNone", used |-> 0, packet |-> NoPacket ]
             ELSE [ tag |-> "Blocked", used |-> 0, packet |-> NoPacket ]
        ELSE IF Len(avail) >= need
        THEN [ tag |-> "OkSome", used |-> need,
               packet |-> Decode(SubSeq(avail, 1, need), regcnt) ]
        ELSE IF eof
        THEN [ tag |-> "OkNone", used |-> Len(avail), packet |-> NoPacket ]
        ELSE [ tag |-> "Blocked", used |-> 0, packet |-> NoPacket ]

\* poll on a blocking stream holding the bytes avail, eof telling that the peer
\* has shut the stream down: what it returns and how many bytes it consumes
poll(avail, eof, regcnt) ==
    LET hlen == URAP_HEAD_WIDTH + URAP_REG_WIDTH
        need == IF Len(avail) >= hlen THEN hlen + RestLen(avail[1]) ELSE hlen
    IN  IF Len(avail) = 0
        THEN IF eof
             THEN [ tag |-> "OkNone", used |-> 0, packet |-> NoPacket ]
             ELSE [ tag |-> "Blocked", used |-> 0, packet |-> NoPacket ]
        ELSE IF Len(avail) >= need
        THEN [ tag |-> "OkSome", used |-> need,
               packet |-> Decode(SubSeq(avail, 1, need), regcnt) ]
        ELSE IF eof
        THEN [ tag |-> "IncompletePacket", used |-> Len(avail), packet |-> NoPacket ]
        ELSE [ tag |-> "Blocked", used |-> 0, packet |-> NoPacket ]

(***************************************************************************)
(* UrapSecondary::process.                                                 *)
(***************************************************************************)
\* the registers a write packet stores: write_buffer[start_register..end_register]
StoredRegs(packet) ==
    [ a \in packet.start_register..(packet.start_register + packet.count - 1) |->
        BufferReg(packet.buffer, a) ]

\* the slice write_buffer[start_register..end_register] lies in the 128 entries
WriteSliceInRange(packet) ==
    packet.start_register + packet.count <= URAP_COUNT_MAX

\* ReadResponse with the crc taken over buffer[..reg_end_offset], ACK included
ReadResponseAckInCrc(packet, bank) ==
    LET regs == [ i \in 1..packet.count |-> RegAt(bank, packet.start_register + i - 1) ]
        bytes == CastSlice(regs)
    IN  << ACK >> \o bytes \o << crc(crc(0, << ACK >>), bytes) >>

\* buffer[..buffer_len] of a read: ACK, the registers, the crc of the registers
ReadResponse(packet, bank) ==
    LET regs == [ i \in 1..packet.count |-> RegAt(bank, packet.start_register + i - 1) ]
        bytes == CastSlice(regs)
    IN  << ACK >> \o bytes \o << crc(0, bytes) >>

\* process that returns from a read after the ACK byte alone
processAckOnly(packet, bank, peer_open) ==
    IF packet.nak_code # None
    THEN [ tag |-> IF peer_open THEN "Ok" ELSE "Io",
           out |-> IF peer_open THEN << NakCodeAsU8(packet.nak_code) >> ELSE << >>,
           bank |-> bank ]
    ELSE [ tag |-> IF peer_open THEN "Ok" ELSE "Io",
           out |-> IF peer_open THEN << ACK >> ELSE << >>,
           bank |-> IF packet.write /\ WriteSliceInRange(packet)
                    THEN BankWith(bank, StoredRegs(packet)) ELSE bank ]

\* process that stores the buffer of a write packet before it looks at the
\* NakCode
processStoresFirst(packet, bank, peer_open) ==
    IF packet.nak_code # None
    THEN [ tag |-> IF peer_open THEN "Ok" ELSE "Io",
           out |-> IF peer_open THEN << NakCodeAsU8(packet.nak_code) >> ELSE << >>,
           bank |-> IF packet.write /\ packet.nak_code = "IndexWriteProtected"
                    THEN BankWith(bank, StoredRegs(packet)) ELSE bank ]
    ELSE IF packet.write
    THEN IF ~WriteSliceInRange(packet)
         THEN [ tag |-> "Panic", out |-> << >>, bank |-> bank ]
         ELSE [ tag |-> IF peer_open THEN "Ok" ELSE "Io",
                out |-> IF peer_open THEN << ACK >> ELSE << >>,
                bank |-> BankWith(bank, StoredRegs(packet)) ]
    ELSE [ tag |-> IF peer_open THEN "Ok" ELSE "Io",
           out |-> IF peer_open THEN ReadResponse(packet, bank) ELSE << >>,
           bank |-> bank ]

\* process: what it returns, the bytes it writes and the bank it leaves;
\* peer_open tells whether write_all can succeed
process(packet, bank, peer_open) ==
    IF packet.nak_code # None
    THEN [ tag |-> IF peer_open THEN "Ok" ELSE "Io",
           out |-> IF peer_open THEN << NakCodeAsU8(packet.nak_code) >> ELSE << >>,
           bank |-> bank ]
    ELSE IF packet.write
    THEN IF ~WriteSliceInRange(packet)
         THEN [ tag |-> "Panic", out |-> << >>, bank |-> bank ]
         ELSE [ tag |-> IF peer_open THEN "Ok" ELSE "Io",
                out |-> IF peer_open THEN << ACK >> ELSE << >>,
                bank |-> BankWith(bank, StoredRegs(packet)) ]
    ELSE [ tag |-> IF peer_open THEN "Ok" ELSE "Io",
           out |-> IF peer_open THEN ReadResponse(packet, bank) ELSE << >>,
           bank |-> bank ]

(***************************************************************************)
(* The server of usockets.rs with its clients: state.                      *)
(***************************************************************************)
VARIABLES
    REGCNT,       \* const REGCNT of spawn: the length of the bank and of the mask
    registers,    \* Arc<Mutex<[[u8; 4]; REGCNT]>>: the bank (its non-zero registers)
    regLock,      \* the worker holding the bank's mutex, 0 when free
    regPoisoned,  \* the bank's mutex is poisoned
    errors,       \* Arc<Mutex<Vec<Error>>>: the error log
    errLock,      \* the worker holding the error log's mutex, 0 when free
    errPoisoned,  \* the error log's mutex is poisoned
    popped,       \* what the pop_error calls made so far returned, in order
    pc,           \* where each connection's worker thread stands
    result,       \* each worker's `result` of poll
    toSec,        \* bytes written by the Primary, not yet read by the worker
    toPri,        \* bytes written by the worker, not yet read by the Primary
    priClosed,    \* the Primary has shut its socket down (Drop)
    secClosed,    \* the worker has shut the stream down, or dropped it
    ppc,          \* where each UrapPrimary stands
    call,         \* the call each UrapPrimary is in, or made last
    hist,         \* each UrapPrimary's returned calls with their results, in order
    flipped       \* a bit of the connection's request was flipped in transit

vars ==
    << REGCNT, registers, regLock, regPoisoned, errors, errLock, errPoisoned,
       popped, pc, result, toSec, toPri, priClosed, secClosed,
       ppc, call, hist, flipped >>

Conn == 1..NumConn

\* register counts the server is spawned with
RegCounts == { RCOUNT_SMALL, RCOUNT }

\* start_register arguments of the Primary calls
Starts == { 0, 1, 2, RCOUNT_SMALL, RCOUNT - 1 }

\* f32::INFINITY.to_le_bytes() and 42_u32.to_le_bytes()
RegVals == << << 0, 0, 128, 127 >>, << 42, 0, 0, 0 >> >>

\* the data slice connection c writes: the two values in turn, the first
\* connection starting with the first value, the next with the second, and so on
DataOf(c, len) == [ i \in 1..len |-> RegVals[((i + c) % Len(RegVals)) + 1] ]

NoCall == [ data |-> << >>, len |-> 0, write |-> FALSE, start |-> 0 ]

NoResult == [ tag |-> "Blocked", used |-> 0, packet |-> NoPacket ]

Init ==
    /\ REGCNT \in RegCounts
    /\ registers = << >>
    /\ regLock = 0
    /\ regPoisoned = FALSE
    /\ errors = << >>
    /\ errLock = 0
    /\ errPoisoned = FALSE
    /\ popped = << >>
    /\ pc = [ c \in Conn |-> "none" ]
    /\ result = [ c \in Conn |-> NoResult ]
    /\ toSec = [ c \in Conn |-> << >> ]
    /\ toPri = [ c \in Conn |-> << >> ]
    /\ priClosed = [ c \in Conn |-> FALSE ]
    /\ secClosed = [ c \in Conn |-> FALSE ]
    /\ ppc = [ c \in Conn |-> "none" ]
    /\ call = [ c \in Conn |-> NoCall ]
    /\ hist = [ c \in Conn |-> << >> ]
    /\ flipped = [ c \in Conn |-> FALSE ]

serverVars == << registers, regLock, regPoisoned, errors, errLock, errPoisoned, pc, result >>

(***************************************************************************)
(* UrapPrimary (usockets.rs) over UrapPrimary (lib.rs).                    *)
(***************************************************************************)
RECURSIVE SumLen(_, _)
SumLen(f, S) ==
    IF S = {} THEN 0
    ELSE LET x == CHOOSE y \in S : TRUE IN Len(f[x]) + SumLen(f, S \ {x})

CallsMade ==
    SumLen(hist, Conn) + Cardinality({ c \in Conn : ppc[c] \in { "wait", "exited" } })

Returned(c, cl, res) == [ hist EXCEPT ![c] = Append(@, [ call |-> cl, res |-> res ]) ]

\* UrapPrimary::new: connect; the listener accepts and spawns the worker thread
Connect(c) ==
    /\ ppc[c] = "none"
    /\ \A d \in Conn : d < c => ppc[d] # "none"
    /\ ppc' = [ ppc EXCEPT ![c] = "idle" ]
    /\ pc' = [ pc EXCEPT ![c] = "poll" ]
    /\ UNCHANGED << REGCNT, registers, regLock, regPoisoned, errors, errLock,
                    errPoisoned, popped, result, toSec, toPri,
                    priClosed, secClosed, call, hist, flipped >>

\* read_4u8 / write_4u8 up to write_all of the request
Request(c, cl) ==
    /\ ppc[c] = "idle"
    /\ CallsMade < MaxCalls
    /\ PrimaryAsserts(cl.len)
    /\ IF secClosed[c]
       THEN /\ hist' = Returned(c, cl, << "Io" >>)
            /\ UNCHANGED << toSec, ppc, call >>
       ELSE /\ call' = [ call EXCEPT ![c] = cl ]
            /\ toSec' = [ toSec EXCEPT ![c] =
                            @ \o (IF cl.write THEN WritePacket(cl.start, cl.data)
                                  ELSE ReadPacket(cl.start, cl.len)) ]
            /\ ppc' = [ ppc EXCEPT ![c] = "wait" ]
            /\ UNCHANGED hist
    /\ UNCHANGED << REGCNT, serverVars, popped, toPri, priClosed, secClosed, flipped >>

PrimaryRead(c) ==
    \E start \in Starts, len \in 1..MaxCount :
        Request(c, [ data |-> << >>, len |-> len, write |-> FALSE, start |-> start ])

PrimaryWrite(c) ==
    \E start \in Starts, len \in 1..MaxCount :
        Request(c, [ data |-> DataOf(c, len), len |-> len, write |-> TRUE,
                     start |-> start ])

\* PrimaryResponse with the ACK byte taken into the checksum of a read
PrimaryResponseAckInCrc(cl, avail, eof) ==
    LET dlen == cl.len * URAP_DATA_WIDTH
    IN  IF Len(avail) = 0
        THEN IF eof THEN [ res |-> << "IncompletePacket" >>, used |-> 0, written |-> << >> ]
             ELSE [ res |-> << "Blocked" >>, used |-> 0, written |-> << >> ]
        ELSE IF avail[1] # ACK
        THEN [ res |-> << "Nak", NakCodeFromU8(avail[1]) >>, used |-> 1,
               written |-> << >> ]
        ELSE IF cl.write
        THEN [ res |-> << "Ok" >>, used |-> 1, written |-> << >> ]
        ELSE IF Len(avail) >= 1 + dlen + URAP_CRC_WIDTH
        THEN LET data_bytes == SubSeq(avail, 2, 1 + dlen)
                 crc_data == << avail[2 + dlen] >>
             IN  [ res |-> IF crc(crc(crc(0, << ACK >>), data_bytes), crc_data) # 0
                           THEN << "BadCrc" >>
                           ELSE << "OkData", data_bytes >>,
                   used |-> 1 + dlen + URAP_CRC_WIDTH,
                   written |-> data_bytes ]
        ELSE IF eof
        THEN [ res |-> << "IncompletePacket" >>, used |-> Len(avail),
               written |-> << >> ]
        ELSE [ res |-> << "Blocked" >>, used |-> 0, written |-> << >> ]

\* the rest of read_4u8 / write_4u8: what the call returns on the bytes avail of
\* the response (eof: the worker's end is closed) and how many bytes it consumes
PrimaryResponse(cl, avail, eof) ==
    LET dlen == cl.len * URAP_DATA_WIDTH
    IN  IF Len(avail) = 0
        THEN IF eof THEN [ res |-> << "IncompletePacket" >>, used |-> 0, written |-> << >> ]
             ELSE [ res |-> << "Blocked" >>, used |-> 0, written |-> << >> ]
        ELSE IF avail[1] # ACK
        THEN [ res |-> << "Nak", NakCodeFromU8(avail[1]) >>, used |-> 1,
               written |-> << >> ]
        ELSE IF cl.write
        THEN [ res |-> << "Ok" >>, used |-> 1, written |-> << >> ]
        ELSE IF Len(avail) >= 1 + dlen + URAP_CRC_WIDTH
        THEN LET data_bytes == SubSeq(avail, 2, 1 + dlen)
                 crc_data == << avail[2 + dlen] >>
             IN  [ res |-> IF crc(crc(0, data_bytes), crc_data) # 0
                           THEN << "BadCrc" >>
                           ELSE << "OkData", data_bytes >>,
                   used |-> 1 + dlen + URAP_CRC_WIDTH,
                   written |-> data_bytes ]
        ELSE IF eof
        THEN [ res |-> << "IncompletePacket" >>, used |-> Len(avail),
               written |-> SubSeq(avail, 2, IF Len(avail) < 1 + dlen THEN Len(avail)
                                            ELSE 1 + dlen) ]
        ELSE [ res |-> << "Blocked" >>, used |-> 0, written |-> << >> ]

PrimaryReturn(c) ==
    /\ ppc[c] = "wait"
    /\ LET r == PrimaryResponse(call[c], toPri[c], secClosed[c])
       IN  /\ r.res # << "Blocked" >>
           /\ toPri' = [ toPri EXCEPT ![c] = SubSeq(@, r.used + 1, Len(@)) ]
           /\ hist' = Returned(c, call[c], r.res)
    /\ ppc' = [ ppc EXCEPT ![c] = "idle" ]
    /\ call' = [ call EXCEPT ![c] = NoCall ]
    /\ UNCHANGED << REGCNT, serverVars, popped, toSec, priClosed, secClosed, flipped >>

\* impl Drop for UrapPrimary: shutdown(Shutdown::Both)
PrimaryDrop(c) ==
    /\ ppc[c] = "idle"
    /\ ppc' = [ ppc EXCEPT ![c] = "dropped" ]
    /\ priClosed' = [ priClosed EXCEPT ![c] = TRUE ]
    /\ UNCHANGED << REGCNT, serverVars, popped, toSec, toPri, secClosed, call, hist, flipped >>

\* the Primary's process ends while its call is outstanding: the socket is closed
\* as by Drop, and the bytes it has not read are discarded
PrimaryExit(c) ==
    /\ ppc[c] = "wait"
    /\ ppc' = [ ppc EXCEPT ![c] = "exited" ]
    /\ priClosed' = [ priClosed EXCEPT ![c] = TRUE ]
    /\ call' = [ call EXCEPT ![c] = NoCall ]
    /\ toPri' = [ toPri EXCEPT ![c] = << >> ]
    /\ UNCHANGED << REGCNT, serverVars, popped, toSec, secClosed, hist, flipped >>

(***************************************************************************)
(* The worker thread of one connection: the loop of UrapSecondary::spawn.  *)
(***************************************************************************)
\* ErrorOfNak with the OutOfBounds and BadCrc arms exchanged and the fields of
\* IndexWriteProtected in the other order
ErrorOfNakSwapped(packet) ==
    CASE packet.nak_code = "SecondaryFailure" -> << "SecondaryFailure" >>
      [] packet.nak_code = "BadCrc" -> << "OutOfBounds", packet.start_register >>
      [] packet.nak_code = "OutOfBounds" -> << "BadCrc" >>
      [] packet.nak_code = "IncompletePacket" -> << "IncompletePacket" >>
      [] packet.nak_code = "IndexWriteProtected" ->
            << "IndexWriteProtected", packet.start_register, packet.count >>
      [] packet.nak_code = "CountExceedsBounds" ->
            << "CountExceedsBounds", packet.count, packet.start_register >>
      [] OTHER -> << "panic" >>

\* the match that turns the packet's NakCode into the Error that is logged;
\* the Unknown arm panics
ErrorOfNak(packet) ==
    CASE packet.nak_code = "SecondaryFailure" -> << "SecondaryFailure" >>
      [] packet.nak_code = "BadCrc" -> << "BadCrc" >>
      [] packet.nak_code = "OutOfBounds" -> << "OutOfBounds", packet.start_register >>
      [] packet.nak_code = "IncompletePacket" -> << "IncompletePacket" >>
      [] packet.nak_code = "IndexWriteProtected" ->
            << "IndexWriteProtected", packet.count, packet.start_register >>
      [] packet.nak_code = "CountExceedsBounds" ->
            << "CountExceedsBounds", packet.count, packet.start_register >>
      [] OTHER -> << "panic" >>

\* let result = urap_secondary.poll(): blocks until the stream has a packet or ends
Poll(c) ==
    /\ pc[c] = "poll"
    /\ LET r == poll(toSec[c], priClosed[c], REGCNT)
       IN  /\ r.tag # "Blocked"
           /\ toSec' = [ toSec EXCEPT ![c] = SubSeq(@, r.used + 1, Len(@)) ]
           /\ result' = [ result EXCEPT ![c] = r ]
    /\ pc' = [ pc EXCEPT ![c] = "lockErrors" ]
    /\ UNCHANGED << REGCNT, registers, regLock, regPoisoned, errors, errLock,
                    errPoisoned, popped, toPri, priClosed, secClosed, ppc, call,
                    hist, flipped >>

\* the panic of a worker thread: the guards it holds are dropped while panicking,
\* which poisons their mutexes, and the stream is dropped with the closure
Panicked(c) ==
    /\ pc' = [ pc EXCEPT ![c] = "panicked" ]
    /\ secClosed' = [ secClosed EXCEPT ![c] = TRUE ]
    /\ errPoisoned' = (errPoisoned \/ errLock = c)
    /\ regPoisoned' = (regPoisoned \/ regLock = c)
    /\ errLock' = IF errLock = c THEN 0 ELSE errLock
    /\ regLock' = IF regLock = c THEN 0 ELSE regLock

\* ShutdownAndBreak that leaves the loop with the guard of the log not dropped
ShutdownAndBreakKeepsLog(c) ==
    /\ secClosed' = [ secClosed EXCEPT ![c] = TRUE ]
    /\ pc' = [ pc EXCEPT ![c] = "done" ]
    /\ errLock' = errLock
    /\ regLock' = 0

\* stream.get_inner_mut().shutdown(Shutdown::Both), drop of the guards, break
ShutdownAndBreak(c) ==
    /\ secClosed' = [ secClosed EXCEPT ![c] = TRUE ]
    /\ pc' = [ pc EXCEPT ![c] = "done" ]
    /\ errLock' = 0
    /\ regLock' = 0

\* let mut errors = error_cpy.lock().unwrap(), then the branches on `result` up to
\* the lock of the bank
LockErrors(c) ==
    /\ pc[c] = "lockErrors"
    /\ errLock = 0
    /\ IF errPoisoned
       THEN \* lock() returns Err(PoisonError) and unwrap panics
            /\ Panicked(c)
            /\ UNCHANGED errors
       ELSE IF result[c].tag = "IncompletePacket"
       THEN \* Err(e): push, shutdown(Both), drop(errors), break
            /\ errors' = Append(errors, << "IncompletePacket" >>)
            /\ ShutdownAndBreak(c)
            /\ UNCHANGED << errPoisoned, regPoisoned >>
       ELSE IF result[c].tag = "OkNone"
       THEN \* Ok(None): drop(errors) and poll again
            /\ pc' = [ pc EXCEPT ![c] = "poll" ]
            /\ UNCHANGED << errors, errLock, regLock, secClosed, errPoisoned, regPoisoned >>
       ELSE IF result[c].packet.nak_code = None
       THEN \* Ok(Some(packet)) without a NakCode
            /\ pc' = [ pc EXCEPT ![c] = "lockRegisters" ]
            /\ errLock' = c
            /\ UNCHANGED << errors, regLock, secClosed, errPoisoned, regPoisoned >>
       ELSE IF ErrorOfNak(result[c].packet) = << "panic" >>
       THEN \* NakCode::Unknown => panic!("Unknown NAK code!"), holding the log
            /\ pc' = [ pc EXCEPT ![c] = "panicked" ]
            /\ secClosed' = [ secClosed EXCEPT ![c] = TRUE ]
            /\ errPoisoned' = TRUE
            /\ UNCHANGED << errors, errLock, regLock, regPoisoned >>
       ELSE \* Ok(Some(packet)) with a NakCode: errors.push(e)
            /\ errors' = Append(errors, ErrorOfNak(result[c].packet))
            /\ pc' = [ pc EXCEPT ![c] = "lockRegisters" ]
            /\ errLock' = c
            /\ UNCHANGED << regLock, secClosed, errPoisoned, regPoisoned >>
    /\ UNCHANGED << REGCNT, registers, popped, result, toSec, toPri, priClosed,
                    ppc, call, hist, flipped >>

\* let mut registers = regcopy.lock().unwrap(), with the error log still locked,
\* then let result = urap_secondary.process(packet, &mut registers)
Process(c) ==
    /\ pc[c] = "lockRegisters"
    /\ regLock = 0
    /\ LET r == process(result[c].packet, registers, ~priClosed[c])
       IN  IF regPoisoned
           THEN \* lock() returns Err(PoisonError) and unwrap panics
                /\ Panicked(c)
                /\ UNCHANGED << registers, toPri, result >>
           ELSE IF r.tag = "Panic"
           THEN \* process panics with the guards of the log and the bank alive
                /\ pc' = [ pc EXCEPT ![c] = "panicked" ]
                /\ secClosed' = [ secClosed EXCEPT ![c] = TRUE ]
                /\ errPoisoned' = TRUE
                /\ regPoisoned' = TRUE
                /\ errLock' = 0
                /\ regLock' = 0
                /\ UNCHANGED << registers, toPri, result >>
           ELSE /\ pc' = [ pc EXCEPT ![c] = "processed" ]
                /\ regLock' = c
                /\ registers' = r.bank
                /\ toPri' = [ toPri EXCEPT ![c] = @ \o r.out ]
                /\ result' = [ result EXCEPT ![c].tag = r.tag ]
                /\ UNCHANGED << secClosed, regPoisoned, errLock, errPoisoned >>
    /\ UNCHANGED << REGCNT, errors, popped, toSec, priClosed, ppc, call, hist, flipped >>

\* NakBreaks for a worker that keeps serving after any response
NakNeverBreaks(nak_code) == FALSE

\* if nak_code.is_some(): the connection is shut down after the response
NakBreaks(nak_code) == nak_code # None

\* Epilogue that goes back to poll with the guard of the bank not dropped
EpilogueKeepsBank(c) ==
    /\ pc[c] = "processed"
    /\ IF result[c].tag = "Io"
       THEN /\ errors' = Append(errors, << "Io" >>)
            /\ ShutdownAndBreak(c)
       ELSE IF NakBreaks(result[c].packet.nak_code)
       THEN /\ ShutdownAndBreak(c)
            /\ UNCHANGED errors
       ELSE /\ pc' = [ pc EXCEPT ![c] = "poll" ]
            /\ errLock' = 0
            /\ UNCHANGED << regLock, errors, secClosed >>
    /\ result' = [ result EXCEPT ![c] = NoResult ]
    /\ UNCHANGED << REGCNT, registers, regPoisoned, errPoisoned, popped,
                    toSec, toPri, priClosed, ppc, call, hist, flipped >>

\* after process: on Err push, shut down, break; on a NakCode shut down, break;
\* else drop both guards and loop
Epilogue(c) ==
    /\ pc[c] = "processed"
    /\ IF result[c].tag = "Io"
       THEN /\ errors' = Append(errors, << "Io" >>)
            /\ ShutdownAndBreak(c)
       ELSE IF NakBreaks(result[c].packet.nak_code)
       THEN /\ ShutdownAndBreak(c)
            /\ UNCHANGED errors
       ELSE /\ pc' = [ pc EXCEPT ![c] = "poll" ]
            /\ errLock' = 0
            /\ regLock' = 0
            /\ UNCHANGED << errors, secClosed >>
    /\ result' = [ result EXCEPT ![c] = NoResult ]
    /\ UNCHANGED << REGCNT, registers, regPoisoned, errPoisoned, popped,
                    toSec, toPri, priClosed, ppc, call, hist, flipped >>

\* pop_error taking the oldest entry of the log
PopErrorFifo ==
    /\ Len(popped) < MaxPops
    /\ errLock = 0
    /\ IF errPoisoned
       THEN /\ popped' = Append(popped, << "Panic" >>)
            /\ UNCHANGED errors
       ELSE IF errors = << >>
       THEN /\ popped' = Append(popped, << "None" >>)
            /\ UNCHANGED errors
       ELSE /\ popped' = Append(popped, << "Some", errors[1] >>)
            /\ errors' = Tail(errors)
    /\ UNCHANGED << REGCNT, registers, regLock, regPoisoned, errLock, errPoisoned,
                    pc, result, toSec, toPri, priClosed, secClosed, ppc, call,
                    hist, flipped >>

\* pop_error: lock().unwrap(), errors.pop(), drop(errors)
PopError ==
    /\ Len(popped) < MaxPops
    /\ errLock = 0
    /\ IF errPoisoned
       THEN /\ popped' = Append(popped, << "Panic" >>)
            /\ UNCHANGED errors
       ELSE IF errors = << >>
       THEN /\ popped' = Append(popped, << "None" >>)
            /\ UNCHANGED errors
       ELSE /\ popped' = Append(popped, << "Some", errors[Len(errors)] >>)
            /\ errors' = SubSeq(errors, 1, Len(errors) - 1)
    /\ UNCHANGED << REGCNT, registers, regLock, regPoisoned, errLock, errPoisoned,
                    pc, result, toSec, toPri, priClosed, secClosed, ppc, call,
                    hist, flipped >>

Next ==
    \/ \E c \in Conn : Connect(c)
    \/ \E c \in Conn : PrimaryRead(c)
    \/ \E c \in Conn : PrimaryWrite(c)
    \/ \E c \in Conn : PrimaryReturn(c)
    \/ \E c \in Conn : PrimaryDrop(c)
    \/ \E c \in Conn : PrimaryExit(c)
    \/ \E c \in Conn : Poll(c)
    \/ \E c \in Conn : LockErrors(c)
    \/ \E c \in Conn : Process(c)
    \/ \E c \in Conn : Epilogue(c)
    \/ PopError

Spec == Init /\ [][Next]_vars

(***************************************************************************)
(* A noisy line: one bit of a request is flipped between the Primary and   *)
(* the Secondary.  Checked for one connection.                             *)
(***************************************************************************)
\* bytes with bit k (from 0, least significant bit of the first byte first) inverted
FlipBit(bytes, k) ==
    [ bytes EXCEPT ![(k \div 8) + 1] = BitXor(@, 2 ^ (k % 8)) ]

Flip(c) ==
    /\ ppc[c] = "wait"
    /\ pc[c] = "poll"
    /\ ~flipped[c]
    /\ toSec[c] # << >>
    /\ \E k \in 0..(8 * Len(toSec[c]) - 1) :
          toSec' = [ toSec EXCEPT ![c] = FlipBit(@, k) ]
    /\ flipped' = [ flipped EXCEPT ![c] = TRUE ]
    /\ UNCHANGED << REGCNT, serverVars, popped, toPri, priClosed, secClosed, ppc,
                    call, hist >>

NextFlip ==
    \/ Connect(1)
    \/ PrimaryRead(1)
    \/ PrimaryWrite(1)
    \/ PrimaryReturn(1)
    \/ PrimaryDrop(1)
    \/ PrimaryExit(1)
    \/ Poll(1)
    \/ LockErrors(1)
    \/ Process(1)
    \/ Epilogue(1)
    \/ PopError
    \/ Flip(1)

SpecFlip == Init /\ [][NextFlip]_vars

(***************************************************************************)
(* What the claims speak of.                                               *)
(***************************************************************************)
\* the registers call cl addresses
CallRange(cl) == cl.start..(cl.start + cl.len - 1)

\* the bank after a write call cl has been applied as the protocol defines it:
\* register start + i holds the i-th register of the data
BankAfterWrite(bank, cl) ==
    BankWith(bank, [ a \in CallRange(cl) |-> cl.data[a - cl.start + 1] ])

\* call cl lies in the bank
InBounds(cl) == cl.start + cl.len <= REGCNT

\* call cl touches a write-protected register
TouchesProtected(cl) == PROTECTED_REGISTER \in CallRange(cl)

\* worker c takes its process step on the request its Primary is waiting on
Processes(c) == pc[c] = "lockRegisters" /\ pc'[c] # "lockRegisters" /\ ppc[c] = "wait"

\* C1: a valid write request of n registers at any in-bounds address whose range
\* holds no write-protected register is answered with ACK, and when the ACK is
\* sent register a + i holds the i-th payload register and every other register
\* is unchanged.
C1_WriteStored ==
    [][ \A c \in Conn :
          ( /\ Processes(c)
            /\ ~flipped[c]
            /\ call[c].write
            /\ InBounds(call[c])
            /\ ~TouchesProtected(call[c]) )
          => ( /\ toPri'[c] = toPri[c] \o << ACK >>
               /\ registers' = BankAfterWrite(registers, call[c]) ) ]_vars

\* C2: a write of n registers at a that returned Ok, followed on the same
\* connection by a read of the same range, no other connection writing, returns
\* Ok with the bytes that were written.
C2_RoundTrip ==
    \A c \in Conn :
        \A i \in 1..(Len(hist[c]) - 1) :
            LET w == hist[c][i]
                r == hist[c][i + 1]
            IN  ( /\ w.call.write
                  /\ w.res = << "Ok" >>
                  /\ ~r.call.write
                  /\ r.call.start = w.call.start
                  /\ r.call.len = w.call.len
                  /\ \A d \in Conn \ {c} : hist[d] = << >> /\ ppc[d] # "wait" )
                => r.res = << "OkData", CastSlice(w.call.data) >>

\* a write call inside the bank whose range holds a write-protected register
ProtectedWrite(cl) == cl.write /\ InBounds(cl) /\ TouchesProtected(cl)

Last(seq) == seq[Len(seq)]

HoldsPacket(c) ==
    \/ pc[c] = "lockErrors" /\ result[c].tag = "OkSome"
    \/ pc[c] \in { "lockRegisters", "processed" }

\* C5: a request with exactly one bit flipped in transit, at any position, is
\* taken by the Secondary as a packet (it does not go on waiting for bytes that
\* were never sent) and decoded to BadCrc, so that no register is mutated.
C5_FlipIsBadCrc ==
    \A c \in Conn :
        flipped[c] =>
            /\ ( pc[c] = "poll" /\ ppc[c] = "wait" /\ toSec[c] # << >>
                   => poll(toSec[c], priClosed[c], REGCNT).tag = "OkSome" )
            /\ ( HoldsPacket(c) => result[c].packet.nak_code = "BadCrc" )

\* the two calls are write calls on ranges with no register in common
Disjoint(cl1, cl2) == CallRange(cl1) \cap CallRange(cl2) = {}

\* connection c has made exactly one call, a write that returned Ok
OneWriteOk(c) ==
    /\ ppc[c] # "wait"
    /\ Len(hist[c]) = 1
    /\ hist[c][1].call.write
    /\ hist[c][1].res = << "Ok" >>

\* C6: when every Primary has made one valid write, the ranges pairwise
\* disjoint, and all the writes have returned, every range holds the data its
\* Primary wrote.
C6_DisjointWrites ==
    ( /\ \A c \in Conn : OneWriteOk(c)
      /\ \A c, d \in Conn : c # d => Disjoint(hist[c][1].call, hist[d][1].call) )
    => \A c \in Conn :
          \A a \in CallRange(hist[c][1].call) :
              RegAt(registers, a) = hist[c][1].call.data[a - hist[c][1].call.start + 1]

\* C7: when two Primaries have each made one write, on ranges that overlap, and
\* both have returned Ok, the registers of the overlap hold the data of one of
\* the two packets, all of them of the same packet.
C7_OverlapOfOne ==
    \A c, d \in Conn :
        ( /\ c # d
          /\ OneWriteOk(c)
          /\ OneWriteOk(d)
          /\ \A e \in Conn \ {c, d} : hist[e] = << >> /\ ppc[e] # "wait"
          /\ ~Disjoint(hist[c][1].call, hist[d][1].call) )
        => \E w \in {c, d} :
              \A a \in CallRange(hist[c][1].call) \cap CallRange(hist[d][1].call) :
                  RegAt(registers, a) = hist[w][1].call.data[a - hist[w][1].call.start + 1]

\* worker c has left its loop
Left(c) == pc[c] \in { "done", "panicked" }

Logged(nak, count, start) ==
    IF nak \in { "IndexWriteProtected", "CountExceedsBounds" } THEN << nak, count, start >>
    ELSE IF nak = "OutOfBounds" THEN << nak, start >>
    ELSE << nak >>

\* the errors pop_error has returned
PoppedErrors == { popped[i][2] : i \in { j \in 1..Len(popped) : popped[j][1] = "Some" } }

\* the errors in the log
LogErrors == { errors[i] : i \in 1..Len(errors) }

\* C9 (state part): while a worker holds a packet carrying a NakCode past the
\* push, the Error of that code is the last entry of the log and the connection
\* is still open; and for every call of a Primary that returned Nak(code), the
\* Error of that code for that request is in the log or was returned by
\* pop_error.
C9_Logged ==
    /\ \A c \in Conn :
          ( pc[c] \in { "lockRegisters", "processed" }
            /\ result[c].packet.nak_code # None )
          => /\ errors # << >>
             /\ Last(errors) = Logged(result[c].packet.nak_code,
                                      result[c].packet.count,
                                      result[c].packet.start_register)
             /\ ~secClosed[c]
    /\ \A c \in Conn : \A i \in 1..Len(hist[c]) :
          hist[c][i].res[1] = "Nak"
          => Logged(hist[c][i].res[2], hist[c][i].call.len, hist[c][i].call.start)
                \in LogErrors \cup PoppedErrors

NextLive ==
    \/ Connect(1)
    \/ PrimaryRead(1)
    \/ PrimaryWrite(1)
    \/ PrimaryReturn(1)
    \/ PrimaryDrop(1)
    \/ PrimaryExit(1)
    \/ Poll(1)
    \/ LockErrors(1)
    \/ Process(1)
    \/ Epilogue(1)
    \/ PopError

\* the worker's steps are taken by a thread the scheduler keeps running
SpecLive ==
    /\ Init
    /\ [][NextLive]_vars
    /\ WF_vars(Poll(1))
    /\ WF_vars(LockErrors(1))
    /\ WF_vars(Process(1))
    /\ WF_vars(Epilogue(1))

\* C10: once the stream of a connection has been shut down or closed by either
\* peer, the connection's worker eventually leaves its loop.
C10_Terminates ==
    \A c \in Conn : (priClosed[c] \/ secClosed[c]) ~> Left(c)

\* the whole response to a decoded packet on the bank as it is: the NAK byte, or
\* ACK, or ACK with the count registers from the start register and their crc
CompleteResponse(packet, bank) ==
    IF packet.nak_code # None THEN << NakCodeAsU8(packet.nak_code) >>
    ELSE IF packet.write THEN << ACK >>
    ELSE LET bytes == CastSlice([ i \in 1..packet.count |->
                                    RegAt(bank, packet.start_register + i - 1) ])
         IN  << ACK >> \o bytes \o << crc(0, bytes) >>

\* C11: on one connection the worker takes bytes of a request only in its poll
\* step, it comes back to poll only from a poll that read nothing or after the
\* step that wrote the whole response to the request it holds, and that step is
\* the only one that writes to the connection: the response to request N is
\* complete before any byte of request N+1 is read, and responses follow the
\* order of the requests.
C11_Ordered ==
    [][ \A c \in Conn :
          /\ ( Len(toSec'[c]) < Len(toSec[c])
                 => pc[c] = "poll" /\ pc'[c] = "lockErrors" )
          /\ ( pc'[c] = "poll" /\ pc[c] # "poll"
                 => \/ pc[c] = "none"
                    \/ pc[c] = "lockErrors" /\ result[c].tag = "OkNone"
                    \/ pc[c] = "processed" )
          /\ ( pc'[c] = "processed" /\ pc[c] # "processed"
                 => /\ pc[c] = "lockRegisters"
                    /\ ( result'[c].tag = "Ok" /\ ppc[c] = "wait"
                           => toPri'[c] = toPri[c]
                                 \o CompleteResponse(result[c].packet, registers) ) )
          /\ ( Len(toPri'[c]) > Len(toPri[c])
                 => pc[c] = "lockRegisters" /\ pc'[c] = "processed" ) ]_vars

\* a connection on which two requests were answered one after the other, the
\* second of them a read, and whose worker is polling for a third
C11_Witness ==
    \E c \in Conn :
        /\ Len(hist[c]) = 2
        /\ hist[c][1].res[1] \in { "Ok", "OkData" }
        /\ hist[c][2].res[1] = "OkData"
        /\ pc[c] = "poll"

(***************************************************************************)
(* One Primary with calls of any size, its worker, and the application that *)
(* owns the register bank.                                                  *)
(***************************************************************************)
WideStarts == { 0, PROTECTED_REGISTER, 255, 256, RCOUNT - 1 }

WideLens == { 0, 1, 2, URAP_COUNT_MAX - 1, URAP_COUNT_MAX, URAP_COUNT_MAX + 1 }

\* the longest data a write call that is sent carries
MaxWideWrite == 2

\* (-1_i32).to_le_bytes(), the value the application stores
MinusOne == << 255, 255, 255, 255 >>

\* the registers the application stores to
AppRegs == { 0, PROTECTED_REGISTER }

\* assert!(data.len() < URAP_COUNT_MAX) or assert_ne!(data.len(), 0) fails: the
\* call panics before write_all, and the unwinding drops the Primary
AssertFails(c, cl) ==
    /\ ppc[c] = "idle"
    /\ CallsMade < MaxCalls
    /\ ~PrimaryAsserts(cl.len)
    /\ hist' = Returned(c, cl, << "AssertFailed" >>)
    /\ ppc' = [ ppc EXCEPT ![c] = "dropped" ]
    /\ priClosed' = [ priClosed EXCEPT ![c] = TRUE ]
    /\ UNCHANGED << REGCNT, serverVars, popped, toSec, toPri, secClosed, call, flipped >>

\* read_4u8 on a buffer of any length, up to write_all of the request
PrimaryReadWide(c) ==
    \E start \in WideStarts, len \in WideLens :
        LET cl == [ data |-> << >>, len |-> len, write |-> FALSE, start |-> start ]
        IN  Request(c, cl) \/ AssertFails(c, cl)

\* write_4u8 on data of any length, up to write_all of the request
PrimaryWriteWide(c) ==
    \E start \in WideStarts,
       len \in { n \in WideLens : n <= MaxWideWrite \/ ~PrimaryAsserts(n) } :
        LET cl == [ data |-> DataOf(c, len), len |-> len, write |-> TRUE,
                    start |-> start ]
        IN  Request(c, cl) \/ AssertFails(c, cl)

\* the application locks the bank, stores to a register and drops the guard
AppWrite ==
    /\ regLock = 0
    /\ ~regPoisoned
    /\ \E a \in AppRegs :
          /\ a < REGCNT
          /\ RegAt(registers, a) # MinusOne
          /\ registers' = BankWith(registers, [ x \in {a} |-> MinusOne ])
    /\ UNCHANGED << REGCNT, regLock, regPoisoned, errors, errLock, errPoisoned,
                    popped, pc, result, toSec, toPri, priClosed, secClosed,
                    ppc, call, hist, flipped >>

NextWide ==
    \/ Connect(1)
    \/ PrimaryReadWide(1)
    \/ PrimaryWriteWide(1)
    \/ PrimaryReturn(1)
    \/ Poll(1)
    \/ LockErrors(1)
    \/ Process(1)
    \/ Epilogue(1)
    \/ AppWrite

\* the bank of three registers
InitWide == Init /\ REGCNT = RCOUNT_SMALL

SpecWide == InitWide /\ [][NextWide]_vars

\* the sizes the protocol allows in one request
ValidLen(n) == 1 <= n /\ n <= URAP_COUNT_MAX

\* C12: a read or write call on n registers is accepted and its request sent,
\* with n - 1 in bits 0-6 of the head byte, for every n with 1 <= n <= 128, and
\* fails its precondition with no byte written exactly when n = 0 or n > 128.
C12_SizePrecondition ==
    [][ \A c \in Conn :
          /\ ( ppc[c] = "idle" /\ ppc'[c] = "wait"
                 => /\ ValidLen(call'[c].len)
                    /\ toSec'[c][Len(toSec[c]) + 1] % URAP_WRITE_OR = call'[c].len - 1 )
          /\ ( Len(hist'[c]) > Len(hist[c])
               /\ Last(hist'[c]).res = << "AssertFailed" >>
                 => /\ ~ValidLen(Last(hist'[c]).call.len)
                    /\ toSec' = toSec ) ]_vars

(***************************************************************************)
(* One Primary on a stream whose other end is not a worker of this server:  *)
(* the peer answers a request with bytes of its own choice.                 *)
(***************************************************************************)
\* the requests the peer answers on one connection
MaxPeerAnswers == 1

\* the longest read the peer answers with ACK, data and a checksum byte
MaxPeerRegs == 1

\* the values of the data bytes of the peer's answers
ByteSample == { 0, 255 }

\* what the peer may send after its answer
PeerExtra == { << >>, << ACK >> }

\* the answers of the peer to call cl: any one byte, or for a read ACK, data
\* bytes and any checksum byte; each with or without a byte after it
PeerResponses(cl) ==
    { << b >> \o x : b \in Byte, x \in PeerExtra }
    \cup ( IF ~cl.write /\ cl.len <= MaxPeerRegs
           THEN { << ACK >> \o d \o << k >> \o x :
                    d \in [ 1..(cl.len * URAP_DATA_WIDTH) -> ByteSample ],
                    k \in Byte, x \in PeerExtra }
           ELSE { } )

\* UrapPrimary::new on the path of a socket some other program listens on
ConnectPeer(c) ==
    /\ ppc[c] = "none"
    /\ ppc' = [ ppc EXCEPT ![c] = "idle" ]
    /\ UNCHANGED << REGCNT, serverVars, popped, toSec, toPri, priClosed, secClosed,
                    call, hist, flipped >>

\* the peer takes the request and writes its answer
PeerSends(c) ==
    /\ ppc[c] = "wait"
    /\ pc[c] = "none"
    /\ Len(hist[c]) < MaxPeerAnswers
    /\ toSec[c] # << >>
    /\ toPri[c] = << >>
    /\ toSec' = [ toSec EXCEPT ![c] = << >> ]
    /\ \E bytes \in PeerResponses(call[c]) :
          toPri' = [ toPri EXCEPT ![c] = bytes ]
    /\ UNCHANGED << REGCNT, serverVars, popped, priClosed, secClosed, ppc, call,
                    hist, flipped >>

NextPeer ==
    \/ ConnectPeer(1)
    \/ PrimaryRead(1)
    \/ PrimaryWrite(1)
    \/ PeerSends(1)
    \/ PrimaryReturn(1)

SpecPeer == Init /\ [][NextPeer]_vars

\* the NakCode whose ordinal is byte b, Unknown when there is none
CodeOfByte(b) ==
    IF \E code \in NakCodes : NakCodeAsU8(code) = b
    THEN CHOOSE code \in NakCodes : NakCodeAsU8(code) = b
    ELSE "Unknown"

\* the call of connection c returns in this step
Returns(c) == ppc[c] = "wait" /\ ppc'[c] = "idle"

\* C13: when the first byte b of the response to a read or write is not ACK, the
\* call returns Nak(code) with code the NakCode of ordinal b for b in 1..6 and
\* Unknown for any other byte, it has consumed that one byte and no more, and it
\* has written nothing to the caller's read buffer.
C13_NakDecoded ==
    [][ \A c \in Conn :
          ( Returns(c) /\ toPri[c] # << >> /\ toPri[c][1] # ACK )
          => /\ Last(hist'[c]).res =
                   << "Nak", IF toPri[c][1] \in 1..6 THEN CodeOfByte(toPri[c][1])
                             ELSE "Unknown" >>
             /\ Last(hist'[c]).res[2] \in NakCodes
             /\ toPri'[c] = Tail(toPri[c])
             /\ PrimaryResponse(call[c], toPri[c], secClosed[c]).written = << >> ]_vars

\* a read call has returned Nak(Unknown) on a byte that is no NakCode's ordinal,
\* and the byte that followed it is still in the stream
C13_Witness ==
    \E c \in Conn :
        /\ pc[c] = "none"
        /\ Len(hist[c]) = 1
        /\ ~hist[c][1].call.write
        /\ hist[c][1].res = << "Nak", "Unknown" >>
        /\ toPri[c] = << ACK >>

\* C14: a read that has received ACK and the bytes that follow it takes len * 4
\* data bytes and one checksum byte from the stream, no more, and returns Ok
\* with the data if the checksum of the data bytes followed by the checksum
\* byte, the ACK byte left out, is 0, and BadCrc if it is not.
C14_ReadIntegrity ==
    [][ \A c \in Conn :
          LET dlen == call[c].len * URAP_DATA_WIDTH
              data == SubSeq(toPri[c], 2, 1 + dlen)
          IN  ( Returns(c) /\ ~call[c].write /\ Len(toPri[c]) >= dlen + 2
                /\ toPri[c][1] = ACK )
              => /\ toPri'[c] = SubSeq(toPri[c], dlen + 3, Len(toPri[c]))
                 /\ ( crc(0, SubSeq(toPri[c], 2, dlen + 2)) = 0
                        => Last(hist'[c]).res = << "OkData", data >> )
                 /\ ( crc(0, SubSeq(toPri[c], 2, dlen + 2)) # 0
                        => Last(hist'[c]).res = << "BadCrc" >> ) ]_vars

\* a read has returned BadCrc on an answer that began with ACK, and the byte
\* after the checksum byte is still in the stream
C14_Witness ==
    \E c \in Conn :
        /\ pc[c] = "none"
        /\ Len(hist[c]) = 1
        /\ ~hist[c][1].call.write
        /\ hist[c][1].res = << "BadCrc" >>
        /\ toPri[c] = << ACK >>

\* the running values a checksum is resumed from
CrcStarts == { 0, 1, ACK, 255 }

\* the byte sequences on the streams: the requests of the Primary and the
\* answers of the peer, and the empty sequence
WireSeqs == { << >> } \cup { toSec[c] : c \in Conn } \cup { toPri[c] : c \in Conn }

\* C15: for every byte sequence b, the empty one included, the checksum of b
\* followed by its own checksum byte is 0; the checksum of the empty sequence
\* is the start value, and the checksum of x followed by y from start value s
\* is the checksum of y from the checksum of x from s.
C15_CrcSelfCheck ==
    \A b \in WireSeqs :
        /\ crc(0, b \o << crc(0, b) >>) = 0
        /\ \A s \in CrcStarts :
              /\ crc(s, << >>) = s
              /\ \A k \in 0..Len(b) :
                    crc(crc(s, SubSeq(b, 1, k)), SubSeq(b, k + 1, Len(b))) = crc(s, b)

\* the stream holds an answer of the peer of ACK, four data bytes, a checksum
\* byte that is not the data's checksum and one byte more
C15_Witness ==
    \E c \in Conn :
        /\ Len(toPri[c]) = URAP_DATA_WIDTH + 3
        /\ toPri[c][1] = ACK
        /\ crc(0, SubSeq(toPri[c], 2, URAP_DATA_WIDTH + 2)) # 0
        /\ crc(0, toPri[c]) # 0

\* pop_error returns in this step
Pops == Len(popped') > Len(popped)

PollsPacket(c) == pc[c] = "poll" /\ pc'[c] = "lockErrors" /\ result'[c].tag = "OkSome"

\* the checks of a request of the given bytes, in the order of the protocol,
\* each with the code it fails with
Checks(bytes, regcnt) ==
    LET write == bytes[1] >= URAP_WRITE_OR
        count == (bytes[1] % URAP_WRITE_OR) + 1
        start == bytes[2] + 256 * bytes[3]
    IN  << << "BadCrc", crc(0, bytes) # 0 >>,
           << "OutOfBounds", start >= regcnt >>,
           << "CountExceedsBounds", start + count > regcnt >>,
           << "IndexWriteProtected",
              write /\ \E a \in start..(start + count - 1) : writeprotect(a) >> >>

\* the code of the first check that fails, None when all pass
FirstFailing(checks) ==
    LET failing == { i \in 1..Len(checks) : checks[i][2] }
    IN  IF failing = { } THEN None
        ELSE checks[CHOOSE i \in failing : \A j \in failing : i <= j][1]

\* C17: the NakCode poll gives a request is the code of the first failing check
\* in the order BadCrc, OutOfBounds, CountExceedsBounds, IndexWriteProtected,
\* and none iff all checks pass; a read is never given IndexWriteProtected,
\* so a read whose range holds a write-protected register and passes the
\* three other checks has no NakCode.
C17_Priority ==
    [][ \A c \in Conn :
          PollsPacket(c)
          => LET bytes == SubSeq(toSec[c], 1, Len(toSec[c]) - Len(toSec'[c]))
                 checks == Checks(bytes, REGCNT)
                 nak == result'[c].packet.nak_code
             IN  /\ nak = FirstFailing(checks)
                 /\ ( nak = None <=> \A i \in 1..Len(checks) : ~checks[i][2] )
                 /\ ( bytes[1] < URAP_WRITE_OR
                        => /\ nak # "IndexWriteProtected"
                           /\ ( \A i \in 1..3 : ~checks[i][2] ) => nak = None ) ]_vars

\* poll has given BadCrc to a write request whose checksum is wrong and whose
\* start register is out of the bank
C17_Witness ==
    \E c \in Conn :
        /\ pc[c] = "lockErrors"
        /\ result[c].tag = "OkSome"
        /\ result[c].packet.write
        /\ result[c].packet.nak_code = "BadCrc"
        /\ result[c].packet.start_register >= REGCNT

\* the NakCodes in the order of their ordinals, Unknown = 0 first
NakOrder ==
    << "Unknown", "SecondaryFailure", "BadCrc", "OutOfBounds", "IncompletePacket",
       "IndexWriteProtected", "CountExceedsBounds" >>

\* the ordinal of a NakCode
Ordinal(code) == ( CHOOSE i \in 1..Len(NakOrder) : NakOrder[i] = code ) - 1

\* the worker of connection c returns from process in this step
ProcessReturns(c) == pc[c] = "lockRegisters" /\ pc'[c] = "processed"

\* C18: process on a packet that carries a NakCode, read or write, writes one
\* byte to its stream, the ordinal of the NakCode, and returns Ok; if the
\* stream cannot be written it writes nothing and returns the I/O error; in
\* both cases it leaves every register of the bank and every other stream
\* unchanged.
C18_NakOneByte ==
    [][ \A c \in Conn :
          ( ProcessReturns(c) /\ result[c].packet.nak_code # None )
          => /\ registers' = registers
             /\ \A d \in Conn \ { c } : toPri'[d] = toPri[d]
             /\ ( ~priClosed[c]
                    => /\ Len(toPri'[c]) = Len(toPri[c]) + 1
                       /\ SubSeq(toPri'[c], 1, Len(toPri[c])) = toPri[c]
                       /\ Last(toPri'[c]) = Ordinal(result[c].packet.nak_code)
                       /\ result'[c].tag = "Ok" )
             /\ ( priClosed[c] => toPri'[c] = toPri[c] /\ result'[c].tag = "Io" ) ]_vars

\* process has answered a write packet that carries BadCrc with the one byte 2
\* while the bank holds what an earlier write stored
C18_Witness ==
    \E c \in Conn :
        /\ pc[c] = "processed"
        /\ result[c].packet.write
        /\ result[c].packet.nak_code = "BadCrc"
        /\ toPri[c] = << 2 >>
        /\ registers # << >>

\* C19: process on a read packet without a NakCode appends 1 + 4 * count + 1
\* bytes to its stream: ACK, then the four bytes of each register of
\* [start, start + count) as the bank holds them at that step, in order, then
\* the checksum of the register bytes alone; it returns Ok and leaves the bank
\* unchanged.
C19_ReadResponse ==
    [][ \A c \in Conn :
          ( ProcessReturns(c) /\ result[c].packet.nak_code = None
            /\ ~result[c].packet.write )
          => LET packet == result[c].packet
                 dlen == URAP_DATA_WIDTH * packet.count
                 out == SubSeq(toPri'[c], Len(toPri[c]) + 1, Len(toPri'[c]))
             IN  /\ registers' = registers
                 /\ SubSeq(toPri'[c], 1, Len(toPri[c])) = toPri[c]
                 /\ ~priClosed[c]
                      => /\ result'[c].tag = "Ok"
                         /\ Len(out) = URAP_ACK_WIDTH + dlen + URAP_CRC_WIDTH
                         /\ out[1] = ACK
                         /\ \A i \in 0..(packet.count - 1) : \A j \in 1..URAP_DATA_WIDTH :
                               out[1 + URAP_DATA_WIDTH * i + j]
                                 = RegAt(registers, packet.start_register + i)[j]
                         /\ out[Len(out)] = crc(0, SubSeq(out, 2, 1 + dlen)) ]_vars

\* process has answered a read of the write-protected register with the value
\* the application stored in the bank while the server was running
C19_Witness ==
    \E c \in Conn :
        /\ pc[c] = "processed"
        /\ ~result[c].packet.write
        /\ result[c].packet.start_register = PROTECTED_REGISTER
        /\ RegAt(registers, PROTECTED_REGISTER) = MinusOne
        /\ toPri[c] = << ACK >> \o MinusOne \o << crc(0, MinusOne) >>

\* the sizes read_4u8 and write_4u8 accept
AcceptedLens == { n \in 0..(URAP_COUNT_MAX + 1) : PrimaryAsserts(n) }

\* the head bytes of the requests of a Primary
ReadHead(n) == (n - 1) % 256
WriteHead(n) == BitOr((n - 1) % 256, URAP_WRITE_OR)

\* C20 (head byte): for every size n a Primary accepts, the head byte of a
\* read of n decodes as a read of count n and the head byte of a write of n
\* as a write of count n, bits 0-6 holding n - 1; every head byte decodes to
\* a count in 1..128.
C20_Heads ==
    /\ \A n \in AcceptedLens :
          /\ ~HeadWrite(ReadHead(n)) /\ HeadCount(ReadHead(n)) = n
          /\ HeadWrite(WriteHead(n)) /\ HeadCount(WriteHead(n)) = n
          /\ ReadHead(n) % URAP_WRITE_OR = n - 1
          /\ WriteHead(n) % URAP_WRITE_OR = n - 1
    /\ \A head \in Byte : HeadCount(head) \in 1..URAP_COUNT_MAX

\* C20: the packet poll decodes from the bytes of a request as the Primary
\* wrote them has the write flag, the count and the start register of the
\* call, for a write the registers of the call's data in order at the
\* beginning of its buffer, and its checksum passes.
C20_CodecAgreement ==
    /\ []C20_Heads
    /\ [][ \A c \in Conn :
             ( PollsPacket(c) /\ ppc[c] = "wait" /\ ~flipped[c] )
             => LET packet == result'[c].packet
                IN  /\ packet.write = call[c].write
                    /\ packet.count = call[c].len
                    /\ packet.count \in 1..URAP_COUNT_MAX
                    /\ packet.start_register = call[c].start
                    /\ packet.write
                         => \A i \in 1..call[c].len :
                               BufferReg(packet.buffer, i - 1) = call[c].data[i]
                    /\ packet.nak_code # "BadCrc"
                    /\ toSec'[c] = << >> ]_vars

\* poll has decoded a write of two registers at register 256, the second
\* register of its buffer being the second register of the call's data
C20_Witness ==
    \E c \in Conn :
        /\ pc[c] = "lockErrors"
        /\ result[c].tag = "OkSome"
        /\ result[c].packet.write
        /\ result[c].packet.count = 2
        /\ result[c].packet.start_register = 256
        /\ result[c].packet.nak_code = "OutOfBounds"
        /\ call[c].data # << >>
        /\ BufferReg(result[c].packet.buffer, 1) = call[c].data[2]

(***************************************************************************)
(* One connection whose Primary may end while write_all has written only a  *)
(* part of the request.                                                     *)
(***************************************************************************)
\* the Primary ends inside write_all: the first k bytes of the request are in
\* the stream and the stream is closed
Truncate(c) ==
    /\ ppc[c] = "wait"
    /\ pc[c] = "poll"
    /\ toSec[c] # << >>
    /\ \E k \in 1..(Len(toSec[c]) - 1) :
          toSec' = [ toSec EXCEPT ![c] = SubSeq(@, 1, k) ]
    /\ ppc' = [ ppc EXCEPT ![c] = "exited" ]
    /\ priClosed' = [ priClosed EXCEPT ![c] = TRUE ]
    /\ call' = [ call EXCEPT ![c] = NoCall ]
    /\ UNCHANGED << REGCNT, serverVars, popped, toPri, secClosed, hist, flipped >>

NextCut ==
    \/ Connect(1)
    \/ PrimaryRead(1)
    \/ PrimaryWrite(1)
    \/ PrimaryReturn(1)
    \/ Truncate(1)
    \/ Poll(1)
    \/ LockErrors(1)
    \/ Process(1)
    \/ Epilogue(1)
    \/ PopError

SpecCut == Init /\ [][NextCut]_vars

\* the length of the packet whose first bytes are avail, as far as the head
\* byte tells it: 3 header bytes, then the checksum byte of a read or the
\* 4 * count + 1 bytes of a write
FullLen(avail) ==
    IF avail[1] >= URAP_WRITE_OR
    THEN 3 + URAP_DATA_WIDTH * ((avail[1] % URAP_WRITE_OR) + 1) + 1
    ELSE 3 + 1

\* the stream of connection c has ended inside a packet
EndsInsidePacket(c) ==
    priClosed[c] /\ toSec[c] # << >> /\ Len(toSec[c]) < FullLen(toSec[c])

\* C21: poll on a stream that has ended after one byte or more of a request and
\* before its last byte returns IncompletePacket, and returns it in no other
\* case; from that poll to the end of the worker no register changes and no
\* byte is written to the stream, and the worker's next step appends
\* IncompletePacket to the error log, shuts the connection down and leaves
\* the loop with both locks free.
C21_Incomplete ==
    [][ \A c \in Conn :
          /\ ( pc[c] = "poll" /\ pc'[c] # "poll" )
               => /\ ( result'[c].tag = "IncompletePacket" <=> EndsInsidePacket(c) )
                  /\ ( EndsInsidePacket(c)
                         => registers' = registers /\ toPri' = toPri /\ errors' = errors )
          /\ ( pc[c] = "lockErrors" /\ pc'[c] # "lockErrors"
               /\ result[c].tag = "IncompletePacket" )
               => /\ errors' = Append(errors, << "IncompletePacket" >>)
                  /\ registers' = registers
                  /\ toPri' = toPri
                  /\ secClosed'[c]
                  /\ pc'[c] = "done"
                  /\ errLock' = 0 /\ regLock' = 0 ]_vars

\* a Primary has ended inside a write request after an earlier write was
\* stored; the worker has logged IncompletePacket and left, the bank holds
\* what the earlier write stored and no response byte is in the stream
C21_Witness ==
    \E c \in Conn :
        /\ ppc[c] = "exited"
        /\ pc[c] = "done"
        /\ secClosed[c]
        /\ errors = << << "IncompletePacket" >> >>
        /\ Len(hist[c]) = 1
        /\ hist[c][1].call.write
        /\ registers = BankAfterWrite(<< >>, hist[c][1].call)
        /\ registers # << >>
        /\ toPri[c] = << >>

\* the workers that are between the lock of the bank and the drop of its guard
InProcess == { c \in Conn : pc[c] = "processed" }

\* C22 (state part): the bank's lock is held by a worker exactly while that
\* worker is between its lock of the bank and the drop of the guard after
\* process; a worker that is in poll, waits for a lock or has ended does not
\* hold it; at most one worker is there at a time.
C22_HeldInProcess ==
    /\ regLock \in { 0 } \cup Conn
    /\ \A c \in Conn : regLock = c <=> c \in InProcess
    /\ Cardinality(InProcess) <= 1

\* C22: the state part, and: a worker takes the bank's lock only when poll has
\* returned it a packet and the lock is free; the bank changes only in the
\* step in which a worker takes the lock and runs process; and the step after
\* process gives the lock back.
C22_BankLock ==
    /\ []C22_HeldInProcess
    /\ [][ /\ \A c \in Conn :
                /\ ( regLock' = c /\ regLock # c )
                     => /\ regLock = 0
                        /\ pc[c] = "lockRegisters"
                        /\ result[c].tag = "OkSome"
                /\ ( pc[c] = "processed" /\ pc'[c] # "processed" ) => regLock' = 0
           /\ registers' # registers
                => \E c \in Conn :
                      /\ regLock = 0 /\ regLock' = c
                      /\ pc[c] = "lockRegisters" /\ pc'[c] = "processed"
                      /\ registers' = process(result[c].packet, registers, TRUE).bank ]_vars

\* one worker is in process with the bank's lock while the worker of the
\* other connection holds a packet from poll and waits
C22_Witness ==
    \E c, d \in Conn :
        /\ c # d
        /\ pc[c] = "processed"
        /\ regLock = c
        /\ pc[d] = "lockErrors"
        /\ result[d].tag = "OkSome"
        /\ registers # << >>

\* C23: a worker that has locked the bank and calls process on a packet that
\* poll gave no NakCode comes back from process, with Ok or with an I/O
\* error, holding both locks; it does not panic, whatever the register count
\* and the range of the packet.
C23_ProcessReturns ==
    [][ \A c \in Conn :
          ( pc[c] = "lockRegisters" /\ pc'[c] # "lockRegisters"
            /\ ~regPoisoned
            /\ result[c].packet.nak_code = None )
          => /\ pc'[c] = "processed"
             /\ result'[c].tag \in { "Ok", "Io" }
             /\ errLock' = c /\ regLock' = c
             /\ ~errPoisoned' /\ ~regPoisoned' ]_vars

\* the worker of connection c holds a read packet that poll validated
HoldsValidRead(c) ==
    /\ result[c].tag = "OkSome"
    /\ result[c].packet.nak_code = None
    /\ ~result[c].packet.write

\* C24: whatever the other connections have sent, a worker that holds a valid
\* read request locks the error log and the bank and answers the request
\* with ACK, the registers of the range and their checksum; it does not end
\* on a lock another worker has left unusable.
C24_Isolation ==
    [][ \A c \in Conn :
          /\ ( pc[c] = "lockErrors" /\ pc'[c] # "lockErrors" /\ HoldsValidRead(c) )
               => pc'[c] = "lockRegisters"
          /\ ( pc[c] = "lockRegisters" /\ pc'[c] # "lockRegisters" /\ HoldsValidRead(c)
               /\ ppc[c] = "wait" )
               => /\ pc'[c] = "processed"
                  /\ toPri'[c] = toPri[c] \o ReadResponse(result[c].packet, registers) ]_vars

\* worker c waits for the error log's lock, or for the bank's
WaitsForLog(c) == pc[c] = "lockErrors"
WaitsForBank(c) == pc[c] = "lockRegisters"

\* C25 (state part): a worker holds the bank's lock only while it holds the
\* error log's; a worker that waits for the log holds no lock, and one that
\* waits for the bank holds the log alone and finds the bank free; whoever
\* holds a lock is a worker that waits for no lock another thread holds, so
\* no threads wait for each other's locks in a cycle.
C25_NoWaitCycle ==
    /\ errLock \in { 0 } \cup Conn
    /\ regLock \in { 0 } \cup Conn
    /\ regLock # 0 => errLock = regLock
    /\ \A c \in Conn :
          /\ WaitsForLog(c) => errLock # c /\ regLock # c
          /\ WaitsForBank(c) => errLock = c /\ regLock = 0
          /\ pc[c] \in { "none", "poll", "done", "panicked" } => errLock # c /\ regLock # c
          /\ errLock = c => pc[c] = "processed" \/ ( WaitsForBank(c) /\ regLock = 0 )

\* C25: the state part, and: a worker takes the log's lock when it is free and
\* it holds no lock, takes the bank's lock when it holds the log's, and is
\* back in poll or out of the loop with neither; pop_error takes and gives
\* back the log's lock alone.
C25_LockOrder ==
    /\ []C25_NoWaitCycle
    /\ [][ /\ \A c \in Conn :
                /\ ( errLock' = c /\ errLock # c )
                     => errLock = 0 /\ regLock = 0 /\ WaitsForLog(c)
                /\ ( regLock' = c /\ regLock # c )
                     => errLock = c /\ errLock' = c /\ WaitsForBank(c)
                /\ ( pc'[c] \in { "poll", "done", "panicked" } /\ pc'[c] # pc[c] )
                     => errLock' # c /\ regLock' # c
           /\ Pops => /\ errLock = 0 /\ errLock' = 0
                       /\ regLock' = regLock
                       /\ pc' = pc ]_vars

\* pop_error has run, one worker holds the log's lock and the bank's, and the
\* worker of the other connection waits for the log's
C25_Witness ==
    \E c, d \in Conn :
        /\ c # d
        /\ errLock = c
        /\ regLock = c
        /\ WaitsForLog(d)
        /\ Len(popped) = 1

\* the bytes of the request of a packet, and of the response to it
RequestLen(packet) ==
    IF packet.write THEN 4 + URAP_DATA_WIDTH * packet.count ELSE 4

ResponseLen(packet) ==
    IF packet.nak_code # None \/ packet.write THEN 1
    ELSE 2 + URAP_DATA_WIDTH * packet.count

\* C26: on a stream whose bytes arrive as they were sent, poll takes 4 bytes
\* for a read request and 4 + 4 * count for a write request; the worker's
\* step on the packet writes 1 byte for a NAK or the ACK of a write and
\* 2 + 4 * count bytes for the answer to a read; the Primary's call returns
\* having taken every byte the Secondary wrote, and when it returns Ok
\* neither direction of the stream holds a byte.
C26_InSync ==
    [][ \A c \in Conn :
          /\ ( PollsPacket(c) /\ ~flipped[c] )
               => /\ Len(toSec[c]) - Len(toSec'[c]) = RequestLen(result'[c].packet)
                  /\ toSec'[c] = SubSeq(toSec[c], RequestLen(result'[c].packet) + 1,
                                         Len(toSec[c]))
          /\ ( Processes(c) /\ ~flipped[c] )
               => Len(toPri'[c]) - Len(toPri[c]) = ResponseLen(result[c].packet)
          /\ ( Returns(c) /\ ~flipped[c] /\ toPri[c] # << >> )
               => /\ toPri'[c] = << >>
                  /\ Last(hist'[c]).res[1] \in { "Ok", "OkData" } => toSec'[c] = << >> ]_vars

====
